---- MODULE Spec2Model ----
(***************************************************************************)
(* Model of the `finalise` crate (src/src/lib.rs): the Finalize and        *)
(* Terminator capabilities, AutoFinalizer<T> and ScopedTerminator<T, F>.   *)
(*                                                                         *)
(* A guard is a value owned by a binding of some scope of the caller.      *)
(* The caller constructs guards, reads and writes through them, extracts   *)
(* their contents, leaks them, or lets their scope end; the end of the     *)
(* scope of a binding that still owns its guard runs the drop glue.        *)
(* Callables are fn items identified by a number; calling one is recorded. *)
(***************************************************************************)
EXTENDS Integers, Sequences, FiniteSets, TLC

\* ---- bounds ----
MaxGuards == 2
MaxDelta == 1
MaxFns == 2

GuardIds == 1..MaxGuards
Values   == 42..(42 + MaxDelta)
Fns      == 1..MaxFns
Paths    == {"return", "early", "unwind"}

VARIABLES guard, kind, life, calls, ret, view, given, written, callerCalls, hist,
          cmp, origin

vars == <<guard, kind, life, calls, ret, view, given, written, callerCalls, hist,
          cmp, origin>>

\* ---- core::mem::ManuallyDrop as the source uses it ----
\* `taken` records that the value has been moved out of the slot; the
\* ManuallyDrop itself keeps no flag and its bits stay where they are.
ManuallyDrop_new(value) == [value |-> value, taken |-> FALSE]

\* ManuallyDrop::take: reads the value out of the slot.  Taking from a slot
\* that was already taken is undefined behaviour (`ub`).
ManuallyDrop_take(slot) ==
    [out  |-> slot.value,
     slot |-> [slot EXCEPT !.taken = TRUE],
     ub   |-> slot.taken]

\* ---- the capabilities ----
Call(f, args) == [fn |-> f, args |-> args]

\* the callables whose body fails: calling one of them panics
Panicky == {f \in Fns : f % 2 = 0}

\* the panic that the calls `made` raise: that of the call that fails
Raise(made) ==
    IF made # << >> /\ made[1].fn \in Panicky THEN << made[1] >> ELSE << >>

\* variant: the callable is discarded instead of being called
FnOnce_finalize_discard(self) == << >>

\* impl<T: FnOnce()> Finalize for T: self()
FnOnce_finalize(self) == << Call(self, <<>>) >>

\* impl<T, F: FnOnce(T)> Terminator<T> for F: self(other)
terminate(self, other) == << Call(self, <<other>>) >>

\* variant: the pair is built around a fixed payload, not `value`
TermPair_fixed(value, terminator) == [f0 |-> 42 + MaxDelta, f1 |-> terminator]

\* struct TermPair<T, F>(T, F)
TermPair(value, terminator) == [f0 |-> value, f1 |-> terminator]

\* variant: the terminator is run a second time on a copy of the payload
TermPair_finalize_twice(self) ==
    terminate(self.f1, self.f0) \o terminate(self.f1, self.f0)

\* impl Finalize for TermPair: self.1.terminate(self.0)
TermPair_finalize(self) == terminate(self.f1, self.f0)

\* dispatch of T::finalize on the Finalize implementation of T
finalize(impl, self) ==
    IF impl = "TermPair" THEN TermPair_finalize(self) ELSE FnOnce_finalize(self)

\* ---- AutoFinalizer<T> ----
AutoFinalizer_new(value) == [inner |-> ManuallyDrop_new(value)]

\* variant: the slot is released with ManuallyDrop::drop, which runs the
\* contained value's own destructor and never calls finalize
AutoFinalizer_drop_in_place(impl, self) ==
    [self  |-> [self EXCEPT !.inner.taken = TRUE],
     calls |-> << >>,
     drops |-> 1,
     ub    |-> self.inner.taken,
     panic |-> << >>]

\* variant: an empty destructor, the slot is left as it is
AutoFinalizer_drop_empty(impl, self) ==
    [self |-> self, calls |-> << >>, drops |-> 1, ub |-> FALSE, panic |-> << >>]

\* variant: after finalizing what it took, the destructor also releases the
\* field with ManuallyDrop::drop, touching the slot it has just emptied
AutoFinalizer_drop_then_release(impl, self) ==
    LET t == ManuallyDrop_take(self.inner)
    IN  [self  |-> [self EXCEPT !.inner = t.slot],
         calls |-> finalize(impl, t.out),
         drops |-> 1,
         ub    |-> TRUE,
         panic |-> Raise(finalize(impl, t.out))]

\* variant: the destructor runs finalize under a catch and swallows its panic
AutoFinalizer_drop_catches(impl, self) ==
    LET t == ManuallyDrop_take(self.inner)
    IN  [self  |-> [self EXCEPT !.inner = t.slot],
         calls |-> finalize(impl, t.out),
         drops |-> 1,
         ub    |-> t.ub,
         panic |-> << >>]

\* impl Drop for AutoFinalizer: ManuallyDrop::take(&mut self.inner).finalize()
\* The value has left the slot when finalize runs, and nothing in drop
\* catches: a panic of finalize leaves the destructor as it was raised.
AutoFinalizer_drop(impl, self) ==
    LET t == ManuallyDrop_take(self.inner)
    IN  [self  |-> [self EXCEPT !.inner = t.slot],
         calls |-> finalize(impl, t.out),
         drops |-> 1,
         ub    |-> t.ub,
         panic |-> Raise(finalize(impl, t.out))]

\* variant: `item` is not moved into a ManuallyDrop, so its destructor runs
\* on the already emptied slot when into_inner returns
AutoFinalizer_into_inner_nowrap(impl, item) ==
    LET t == ManuallyDrop_take(item.inner)
        d == AutoFinalizer_drop(impl, [item EXCEPT !.inner = t.slot])
    IN  [ret   |-> t.out,
         self  |-> d.self,
         calls |-> d.calls,
         drops |-> d.drops,
         ub    |-> t.ub \/ d.ub]

\* variant: into_inner is written like the destructor, finalizing what it
\* reads out of the slot before handing the same bits back
AutoFinalizer_into_inner_finalizes(impl, item) ==
    LET wrapped == ManuallyDrop_new(item)
        t       == ManuallyDrop_take(wrapped.value.inner)
    IN  [ret   |-> t.out,
         self  |-> [wrapped.value EXCEPT !.inner = t.slot],
         calls |-> finalize(impl, t.out),
         drops |-> 0,
         ub    |-> t.ub]

\* AutoFinalizer::into_inner: the guard is moved into a ManuallyDrop, so its
\* destructor does not run when the function returns; the value is taken out.
AutoFinalizer_into_inner(impl, item) ==
    LET wrapped == ManuallyDrop_new(item)
        t       == ManuallyDrop_take(wrapped.value.inner)
    IN  [ret   |-> t.out,
         self  |-> [wrapped.value EXCEPT !.inner = t.slot],
         calls |-> <<>>,
         drops |-> 0,
         ub    |-> t.ub]

\* Clone and Default of the contained type T: a clone is an equal value
\* (for the derived Clone of TermPair, a pair of the clones of its fields),
\* the default of TermPair is the pair of the defaults of its fields
DefaultValue == CHOOSE v \in Values : \A w \in Values : v <= w

DefaultFn == CHOOSE f \in Fns : \A h \in Fns : f <= h

T_clone(impl, x) == IF impl = "TermPair" THEN TermPair(x.f0, x.f1) ELSE x

T_default(impl) ==
    IF impl = "TermPair" THEN TermPair(DefaultValue, DefaultFn) ELSE DefaultFn

\* variant: the clone is made by moving the value out of the original
AutoFinalizer_clone_moves(impl, self) ==
    LET t == ManuallyDrop_take(self.inner)
    IN  [self  |-> [self EXCEPT !.inner = t.slot],
         clone |-> [inner |-> ManuallyDrop_new(t.out)]]

\* #[derive(Clone)] on AutoFinalizer: the clone of the one field, and the
\* clone of a ManuallyDrop<T> is a new ManuallyDrop around a clone of the
\* value; `self` is borrowed and stays as it is
AutoFinalizer_clone(impl, self) ==
    [self  |-> self,
     clone |-> [inner |-> ManuallyDrop_new(T_clone(impl, self.inner.value))]]

\* #[derive(Default)] on AutoFinalizer: a ManuallyDrop around T::default()
AutoFinalizer_default(impl) == [inner |-> ManuallyDrop_new(T_default(impl))]

\* Deref / DerefMut for AutoFinalizer: the place of the contained value
AutoFinalizer_deref(self) == self.inner.value

\* variant: the write goes to a temporary copy and is lost
AutoFinalizer_deref_mut_copy(self, v) == self

AutoFinalizer_deref_mut(self, v) == [self EXCEPT !.inner.value = v]

\* PartialEq, Ord and Hash of the contained type T: a payload value is
\* compared by value, and feeds its value to the hasher
T_eq(x, y) == x = y

T_cmp(x, y) == IF x < y THEN "Less" ELSE IF x = y THEN "Equal" ELSE "Greater"

T_hash(x) == <<x>>

\* #[derive(PartialEq, Eq, PartialOrd, Ord, Hash)] on AutoFinalizer: each
\* goes field by field, and the one field, a ManuallyDrop<T>, forwards to T
AutoFinalizer_eq(self, other) == T_eq(self.inner.value, other.inner.value)

\* variant: the operands of the comparison are swapped
AutoFinalizer_cmp_swapped(self, other) ==
    T_cmp(other.inner.value, self.inner.value)

AutoFinalizer_cmp(self, other) == T_cmp(self.inner.value, other.inner.value)

AutoFinalizer_hash(self) == T_hash(self.inner.value)

\* ---- ScopedTerminator<T, F> ----
ScopedTerminator_new(value, terminator) ==
    [inner |-> AutoFinalizer_new(TermPair(value, terminator))]

\* variant: the pair is copied out through the guard and `item` is then
\* dropped as an ordinary local when into_pair returns
ScopedTerminator_into_pair_copy(item) ==
    LET pair == AutoFinalizer_deref(item.inner)
        d    == AutoFinalizer_drop("TermPair", item.inner)
    IN  [ret   |-> <<pair.f0, pair.f1>>,
         self  |-> [item EXCEPT !.inner = d.self],
         calls |-> d.calls,
         drops |-> d.drops,
         ub    |-> d.ub]

ScopedTerminator_into_pair(item) ==
    LET r == AutoFinalizer_into_inner("TermPair", item.inner)
    IN  [ret   |-> <<r.ret.f0, r.ret.f1>>,
         self  |-> [item EXCEPT !.inner = r.self],
         calls |-> r.calls,
         drops |-> r.drops,
         ub    |-> r.ub]

\* Deref / DerefMut for ScopedTerminator: component .0 of the pair
ScopedTerminator_deref(self) == AutoFinalizer_deref(self.inner).f0

\* variant: the write access hands out component .1 of the pair
ScopedTerminator_deref_mut_terminator(self, v) ==
    [self EXCEPT !.inner =
        AutoFinalizer_deref_mut(@, [AutoFinalizer_deref(@) EXCEPT !.f1 = v])]

\* variant: the write access hands out a copy of the payload
ScopedTerminator_deref_mut_copy(self, v) == self

ScopedTerminator_deref_mut(self, v) ==
    [self EXCEPT !.inner =
        AutoFinalizer_deref_mut(@, [AutoFinalizer_deref(@) EXCEPT !.f0 = v])]

\* #[derive(Default, Clone)] on ScopedTerminator: field by field
ScopedTerminator_clone(self) ==
    LET c == AutoFinalizer_clone("TermPair", self.inner)
    IN  [self  |-> [self EXCEPT !.inner = c.self],
         clone |-> [inner |-> c.clone]]

ScopedTerminator_default == [inner |-> AutoFinalizer_default("TermPair")]

\* ScopedTerminator has no Drop of its own: its drop glue drops the field
\* `inner`, an AutoFinalizer<TermPair<T, F>>.
ScopedTerminator_drop(self) ==
    LET d == AutoFinalizer_drop("TermPair", self.inner)
    IN  [self  |-> [self EXCEPT !.inner = d.self],
         calls |-> d.calls,
         drops |-> d.drops,
         ub    |-> d.ub,
         panic |-> d.panic]

\* ---- views of a guard ----
IsAF(g) == kind[g] = "AutoFinalizer"
IsST(g) == kind[g] = "ScopedTerminator"
Born(g) == g \in DOMAIN guard

Slot(g) == IF IsST(g) THEN guard[g].inner.inner ELSE guard[g].inner

Armed(g)    == Born(g) /\ ~Slot(g).taken
Consumed(g) == Born(g) /\ Slot(g).taken

\* the next guard instance to be constructed
Fresh(g) == ~Born(g) /\ \A h \in GuardIds : h < g => Born(h)

NoHist == [drops |-> 0, extracts |-> 0, ub |-> FALSE, raised |-> << >>]

\* no comparison result at hand
NoCmp == [a |-> 0, b |-> 0, eq |-> FALSE, ord |-> "Equal", hash |-> << >>]

Init ==
    /\ guard = << >>
    /\ kind = [g \in GuardIds |-> "none"]
    /\ life = [g \in GuardIds |-> "unborn"]
    /\ calls = [g \in GuardIds |-> << >>]
    /\ ret = [g \in GuardIds |-> << >>]
    /\ view = [g \in GuardIds |-> << >>]
    /\ given = [g \in GuardIds |-> << >>]
    /\ written = [g \in GuardIds |-> FALSE]
    /\ callerCalls = [g \in GuardIds |-> << >>]
    /\ hist = [g \in GuardIds |-> NoHist]
    /\ cmp = NoCmp
    /\ origin = [g \in GuardIds |-> 0]

\* ---- the caller's operations ----

\* AutoFinalizer::new(c) for a nullary callable c
AfNew(g, c) ==
    /\ Fresh(g)
    /\ guard' = guard @@ (g :> AutoFinalizer_new(c))
    /\ kind' = [kind EXCEPT ![g] = "AutoFinalizer"]
    /\ life' = [life EXCEPT ![g] = "held"]
    /\ given' = [given EXCEPT ![g] = <<c>>]
    /\ UNCHANGED <<calls, ret, view, written, callerCalls, hist>>
    /\ cmp' = NoCmp
    /\ UNCHANGED origin

\* ScopedTerminator::new(v, f)
StNew(g, v, f) ==
    /\ Fresh(g)
    /\ guard' = guard @@ (g :> ScopedTerminator_new(v, f))
    /\ kind' = [kind EXCEPT ![g] = "ScopedTerminator"]
    /\ life' = [life EXCEPT ![g] = "held"]
    /\ given' = [given EXCEPT ![g] = <<v, f>>]
    /\ UNCHANGED <<calls, ret, view, written, callerCalls, hist>>
    /\ cmp' = NoCmp
    /\ UNCHANGED origin

\* `*guard` read through Deref; the shared borrow lasts until the next
\* exclusive use of the guard
Deref(g) ==
    /\ life[g] = "held"
    /\ view' = [view EXCEPT ![g] =
                 IF IsST(g) THEN <<ScopedTerminator_deref(guard[g])>>
                            ELSE <<AutoFinalizer_deref(guard[g])>>]
    /\ UNCHANGED <<guard, kind, life, calls, ret, given, written, callerCalls, hist>>
    /\ cmp' = NoCmp
    /\ UNCHANGED origin

\* `*guard = x` through DerefMut
AfDerefMut(g, c) ==
    /\ life[g] = "held" /\ IsAF(g)
    /\ guard' = [guard EXCEPT ![g] = AutoFinalizer_deref_mut(@, c)]
    /\ given' = [given EXCEPT ![g] = <<c>>]
    /\ written' = [written EXCEPT ![g] = TRUE]
    /\ view' = [view EXCEPT ![g] = << >>]
    /\ UNCHANGED <<kind, life, calls, ret, callerCalls, hist>>
    /\ cmp' = NoCmp
    /\ UNCHANGED origin

StDerefMut(g, v) ==
    /\ life[g] = "held" /\ IsST(g)
    /\ guard' = [guard EXCEPT ![g] = ScopedTerminator_deref_mut(@, v)]
    /\ given' = [given EXCEPT ![g] = <<v, @[2]>>]
    /\ written' = [written EXCEPT ![g] = TRUE]
    /\ view' = [view EXCEPT ![g] = << >>]
    /\ UNCHANGED <<kind, life, calls, ret, callerCalls, hist>>
    /\ cmp' = NoCmp
    /\ UNCHANGED origin

\* the effect of an extraction result r on guard g
Extracted(g, r, out) ==
    /\ guard' = [guard EXCEPT ![g] = r.self]
    /\ ret' = [ret EXCEPT ![g] = out]
    /\ calls' = [calls EXCEPT ![g] = @ \o r.calls]
    /\ hist' = [hist EXCEPT ![g] = [drops    |-> @.drops + r.drops,
                                    extracts |-> @.extracts + 1,
                                    ub       |-> @.ub \/ r.ub,
                                    raised   |-> @.raised]]
    /\ life' = [life EXCEPT ![g] = "moved"]
    /\ view' = [view EXCEPT ![g] = << >>]
    /\ UNCHANGED <<kind, given, written, callerCalls>>
    /\ cmp' = NoCmp
    /\ UNCHANGED origin

\* AutoFinalizer::into_inner(guard): the binding gives the guard away
AfIntoInner(g) ==
    /\ life[g] = "held" /\ IsAF(g)
    /\ LET r == AutoFinalizer_into_inner("FnOnce", guard[g])
       IN  Extracted(g, r, <<r.ret>>)

\* ScopedTerminator::into_pair(guard)
StIntoPair(g) ==
    /\ life[g] = "held" /\ IsST(g)
    /\ LET r == ScopedTerminator_into_pair(guard[g])
       IN  Extracted(g, r, r.ret)

\* variant: the destructor does nothing while the thread is unwinding
DropGlue_unless_unwinding(g, p) ==
    IF p = "unwind"
    THEN [self |-> guard[g], calls |-> << >>, drops |-> 1, ub |-> FALSE,
          panic |-> << >>]
    ELSE IF IsST(g) THEN ScopedTerminator_drop(guard[g])
                    ELSE AutoFinalizer_drop("FnOnce", guard[g])

\* drop glue of a guard of either type, run when the owning scope is left by
\* path p; the destructor does not look at the path
DropGlue(g, p) ==
    IF IsST(g) THEN ScopedTerminator_drop(guard[g])
               ELSE AutoFinalizer_drop("FnOnce", guard[g])

\* the scope of a binding that still owns its guard ends by path p; a panic
\* that leaves the destructor is on its way to the code around the scope
Drop(g, p) ==
    /\ life[g] = "held"
    /\ LET d == DropGlue(g, p)
       IN  /\ guard' = [guard EXCEPT ![g] = d.self]
           /\ calls' = [calls EXCEPT ![g] = @ \o d.calls]
           /\ hist' = [hist EXCEPT ![g] = [drops    |-> @.drops + d.drops,
                                           extracts |-> @.extracts,
                                           ub       |-> @.ub \/ d.ub,
                                           raised   |-> @.raised \o d.panic]]
    /\ life' = [life EXCEPT ![g] = p]
    /\ view' = [view EXCEPT ![g] = << >>]
    /\ UNCHANGED <<kind, ret, given, written, callerCalls>>
    /\ cmp' = NoCmp
    /\ UNCHANGED origin

\* the scope of a binding whose guard was moved into an extraction ends:
\* a moved-from binding has no drop glue to run
ScopeEndMoved(g) ==
    /\ life[g] = "moved"
    /\ life' = [life EXCEPT ![g] = "ended"]
    /\ UNCHANGED <<guard, kind, calls, ret, view, given, written, callerCalls, hist>>
    /\ cmp' = NoCmp
    /\ UNCHANGED origin

\* the caller moves the guard into core::mem::forget or a ManuallyDrop of its
\* own (as into_inner itself does with `item`): no destructor will run
Leak(g) ==
    /\ life[g] = "held"
    /\ life' = [life EXCEPT ![g] = "leaked"]
    /\ view' = [view EXCEPT ![g] = << >>]
    /\ UNCHANGED <<guard, kind, calls, ret, given, written, callerCalls, hist>>
    /\ cmp' = NoCmp
    /\ UNCHANGED origin

\* the caller uses what an extraction returned: c() or f(v)
CallReturned(g) ==
    /\ ret[g] # << >>
    /\ callerCalls[g] = << >>
    /\ callerCalls' = [callerCalls EXCEPT ![g] =
                        IF IsST(g) THEN terminate(ret[g][2], ret[g][1])
                                   ELSE FnOnce_finalize(ret[g][1])]
    /\ UNCHANGED <<guard, kind, life, calls, ret, view, given, written, hist>>
    /\ cmp' = NoCmp
    /\ UNCHANGED origin

\* two guards of one type are compared and the first is hashed.  Two
\* AutoFinalizers are compared by the derived operators; ScopedTerminator
\* derives none, so two of them are compared through Deref, `*a == *b`.
\* The result is a temporary of the caller.
Compare(a, b) ==
    /\ a # b /\ life[a] = "held" /\ life[b] = "held" /\ kind[a] = kind[b]
    /\ cmp' = IF IsAF(a)
              THEN [a    |-> a, b |-> b,
                    eq   |-> AutoFinalizer_eq(guard[a], guard[b]),
                    ord  |-> AutoFinalizer_cmp(guard[a], guard[b]),
                    hash |-> AutoFinalizer_hash(guard[a])]
              ELSE [a    |-> a, b |-> b,
                    eq   |-> T_eq(ScopedTerminator_deref(guard[a]),
                                  ScopedTerminator_deref(guard[b])),
                    ord  |-> T_cmp(ScopedTerminator_deref(guard[a]),
                                   ScopedTerminator_deref(guard[b])),
                    hash |-> T_hash(ScopedTerminator_deref(guard[a]))]
    /\ UNCHANGED <<guard, kind, life, calls, ret, view, given, written, callerCalls,
                   hist, origin>>

\* AutoFinalizer::default() and ScopedTerminator::default()
AfDefault(g) ==
    /\ Fresh(g)
    /\ guard' = guard @@ (g :> AutoFinalizer_default("FnOnce"))
    /\ kind' = [kind EXCEPT ![g] = "AutoFinalizer"]
    /\ life' = [life EXCEPT ![g] = "held"]
    /\ given' = [given EXCEPT ![g] = <<DefaultFn>>]
    /\ origin' = [origin EXCEPT ![g] = -1]
    /\ cmp' = NoCmp
    /\ UNCHANGED <<calls, ret, view, written, callerCalls, hist>>

StDefault(g) ==
    /\ Fresh(g)
    /\ guard' = guard @@ (g :> ScopedTerminator_default)
    /\ kind' = [kind EXCEPT ![g] = "ScopedTerminator"]
    /\ life' = [life EXCEPT ![g] = "held"]
    /\ given' = [given EXCEPT ![g] = <<DefaultValue, DefaultFn>>]
    /\ origin' = [origin EXCEPT ![g] = -1]
    /\ cmp' = NoCmp
    /\ UNCHANGED <<calls, ret, view, written, callerCalls, hist>>

\* guard.clone(): guard g is borrowed, the clone is the new guard h
Clone(g, h) ==
    /\ life[g] = "held"
    /\ Fresh(h)
    /\ LET r == IF IsST(g) THEN ScopedTerminator_clone(guard[g])
                           ELSE AutoFinalizer_clone("FnOnce", guard[g])
       IN  guard' = [guard EXCEPT ![g] = r.self] @@ (h :> r.clone)
    /\ kind' = [kind EXCEPT ![h] = kind[g]]
    /\ life' = [life EXCEPT ![h] = "held"]
    /\ given' = [given EXCEPT ![h] = given[g]]
    /\ written' = [written EXCEPT ![h] = written[g]]
    /\ origin' = [origin EXCEPT ![h] = g]
    /\ cmp' = NoCmp
    /\ UNCHANGED <<calls, ret, view, callerCalls, hist>>

Next ==
    \/ \E g \in GuardIds, c \in Fns : AfNew(g, c)
    \/ \E g \in GuardIds, v \in Values, f \in Fns : StNew(g, v, f)
    \/ \E g \in GuardIds : Deref(g)
    \/ \E g \in GuardIds, c \in Fns : AfDerefMut(g, c)
    \/ \E g \in GuardIds, v \in Values : StDerefMut(g, v)
    \/ \E g \in GuardIds : AfIntoInner(g)
    \/ \E g \in GuardIds : StIntoPair(g)
    \/ \E g \in GuardIds, p \in Paths : Drop(g, p)
    \/ \E g \in GuardIds : ScopeEndMoved(g)
    \/ \E g \in GuardIds : Leak(g)
    \/ \E g \in GuardIds : CallReturned(g)
    \/ \E a \in GuardIds, b \in GuardIds : Compare(a, b)
    \/ \E g \in GuardIds : AfDefault(g)
    \/ \E g \in GuardIds : StDefault(g)
    \/ \E g \in GuardIds, h \in GuardIds : Clone(g, h)

Spec == Init /\ [][Next]_vars

\* Every scope of the caller is eventually left: a binding that still owns
\* its guard is dropped, a moved-from binding just goes away.
Fairness ==
    \A g \in GuardIds :
        /\ WF_vars(\E p \in Paths : Drop(g, p))
        /\ WF_vars(ScopeEndMoved(g))

FairSpec == Spec /\ Fairness

\* ---- vocabulary of the properties ----
Destroyed(g) == life[g] \in Paths
Extracted1(g) == ret[g] # << >>
LastPayload(g) == given[g][1]

\* C1: a guard that was constructed and then destroyed without extraction,
\* whatever was read or written through it, has had its terminal action
\* invoked exactly once; no terminal action runs before the destruction (not
\* during new, not while the guard is held).
C1_ExactlyOnce ==
    \A g \in GuardIds :
        /\ life[g] \in {"unborn", "held", "leaked"} => calls[g] = << >>
        /\ Destroyed(g) => Len(calls[g]) = 1 /\ hist[g].drops = 1

C1_Witness ==
    \E g \in GuardIds : Destroyed(g) /\ written[g] /\ Len(calls[g]) = 1

\* C2: once into_inner or into_pair has been called on a guard, the guard
\* never invokes its terminal action: not in the extraction, not when the
\* former scope of the guard ends afterwards.
C2_ExtractionDisarms ==
    \A g \in GuardIds :
        hist[g].extracts > 0 => calls[g] = << >> /\ hist[g].drops = 0

C2_Witness ==
    \E g \in GuardIds, h \in GuardIds :
        /\ IsAF(g) /\ life[g] = "ended" /\ hist[g].extracts = 1 /\ calls[g] = << >>
        /\ IsST(h) /\ life[h] = "ended" /\ hist[h].extracts = 1 /\ calls[h] = << >>

\* the operations on guard g: read, write, extract, destroy
GuardOp(g) ==
    \/ Deref(g)
    \/ \E c \in Fns : AfDerefMut(g, c)
    \/ \E v \in Values : StDerefMut(g, v)
    \/ AfIntoInner(g)
    \/ StIntoPair(g)
    \/ \E p \in Paths : Drop(g, p)

\* C3: destruction and extraction exclude each other on one guard, a
\* Consumed guard stays Consumed, and no read, write, extraction or
\* destruction is enabled on a Consumed guard.
C3_Exclusive ==
    /\ [](\A g \in GuardIds :
            /\ hist[g].drops + hist[g].extracts <= 1
            /\ Consumed(g) <=> hist[g].drops + hist[g].extracts = 1
            /\ Consumed(g) => ~ENABLED GuardOp(g))
    /\ [][\A g \in GuardIds : Consumed(g) => Consumed(g)']_vars

C3_Witness ==
    \E g \in GuardIds, h \in GuardIds :
        /\ Consumed(g) /\ hist[g].drops = 1 /\ hist[g].extracts = 0
        /\ Consumed(h) /\ hist[h].drops = 0 /\ hist[h].extracts = 1

\* C4: a ScopedTerminator destroyed without into_pair has called its
\* terminator exactly once, with its payload as the only argument; built by
\* new(42, f) and not written, f was called with exactly 42.
C4_TerminatorGetsPayload ==
    \A g \in GuardIds :
        IsST(g) /\ Destroyed(g) =>
            /\ calls[g] = << Call(given[g][2], <<LastPayload(g)>>) >>
            /\ ~written[g] /\ LastPayload(g) = 42 =>
                   calls[g][1].args = <<42>>

C4_Witness ==
    \E g \in GuardIds :
        /\ IsST(g) /\ Destroyed(g) /\ ~written[g]
        /\ given[g][1] = 42
        /\ calls[g] = << Call(given[g][2], <<42>>) >>

\* C5: whichever way control leaves the scope that owns an un-extracted
\* guard (normal return, early exit, unwinding), that step invokes the
\* terminal action exactly once.
C5_EveryPath ==
    [][\A g \in GuardIds, p \in Paths :
          life[g] = "held" /\ life'[g] = p =>
              /\ Len(calls'[g]) = Len(calls[g]) + 1
              /\ Len(calls'[g]) = 1]_vars

C5_Witness ==
    \E g \in GuardIds, h \in GuardIds :
        /\ life[g] = "unwind" /\ Len(calls[g]) = 1
        /\ life[h] = "early" /\ Len(calls[h]) = 1


\* C6: into_pair on a guard built by new(v, f) and not written returns
\* exactly (v, f) and f has not been executed; the caller can then invoke
\* the returned f with the returned v, which performs f's action once.
C6_PairFidelity ==
    \A g \in GuardIds :
        IsST(g) /\ Extracted1(g) /\ ~written[g] =>
            /\ ret[g] = given[g]
            /\ calls[g] = << >>
            /\ callerCalls[g] = << >> => ENABLED CallReturned(g)
            /\ callerCalls[g] # << >> =>
                   callerCalls[g] = << Call(given[g][2], <<given[g][1]>>) >>

C6_Witness ==
    \E g \in GuardIds :
        /\ IsST(g) /\ ~written[g] /\ ret[g] = given[g] /\ calls[g] = << >>
        /\ callerCalls[g] = << Call(given[g][2], <<given[g][1]>>) >>

\* C7: into_inner on a guard built by new(v) and not written returns v, and
\* the round trip has no other effect: no finalize call, no destructor run.
C7_ValueFidelity ==
    \A g \in GuardIds :
        IsAF(g) /\ Extracted1(g) /\ ~written[g] =>
            /\ ret[g] = given[g]
            /\ calls[g] = << >>
            /\ hist[g].drops = 0 /\ ~hist[g].ub

C7_Witness ==
    \E g \in GuardIds :
        IsAF(g) /\ ~written[g] /\ life[g] = "moved" /\ ret[g] = given[g]

\* C8: for both guard types, after writes through the guard a read yields
\* the last written payload, and an extraction returns the last written
\* payload (with the terminator passed to new, for a ScopedTerminator).
C8_AccessReflectsMutation ==
    \A g \in GuardIds :
        written[g] =>
            /\ view[g] # << >> => view[g] = <<LastPayload(g)>>
            /\ Extracted1(g) => ret[g] = given[g]

C8_Witness ==
    \E g \in GuardIds, h \in GuardIds :
        /\ IsAF(g) /\ written[g] /\ ret[g] = given[g]
        /\ IsST(h) /\ written[h] /\ view[h] = <<LastPayload(h)>>

\* C9: an AutoFinalizer around a nullary callable c that is destroyed has
\* called c(), with no argument, exactly once; one that is extracted with
\* into_inner has called it zero times.
C9_NullaryCallable ==
    \A g \in GuardIds :
        IsAF(g) =>
            /\ Destroyed(g) => calls[g] = << Call(LastPayload(g), << >>) >>
            /\ Extracted1(g) => calls[g] = << >>

C9_Witness ==
    \E g \in GuardIds, h \in GuardIds :
        /\ IsAF(g) /\ Destroyed(g) /\ ~written[g]
        /\ calls[g] = << Call(given[g][1], << >>) >>
        /\ IsAF(h) /\ Extracted1(h) /\ calls[h] = << >>

\* C10 as stated: every constructed guard eventually leaves Armed and
\* reaches Consumed.
C10_NeverNeither ==
    \A g \in GuardIds : Armed(g) ~> Consumed(g)

\* C10 as amended: every constructed guard that its owner does not leak
\* (core::mem::forget, a ManuallyDrop of the caller) eventually reaches
\* Consumed, by destruction or by extraction, once its owning scope is left.
C10_ConsumedUnlessLeaked ==
    \A g \in GuardIds : Armed(g) ~> (Consumed(g) \/ life[g] = "leaked")

C10_Witness ==
    \E g \in GuardIds, h \in GuardIds :
        /\ Consumed(g) /\ Destroyed(g) /\ hist[g].drops = 1
        /\ Consumed(h) /\ life[h] = "ended" /\ hist[h].extracts = 1

\* ---- the slot ----
\* the receivers the contents of guard g have been handed to: a terminal
\* action started by the guard, or the caller of an extraction
Receivers(g) == Len(calls[g]) + (IF ret[g] # << >> THEN 1 ELSE 0)

\* the slot of g holds the contents most recently given to g
SlotHolds(g) ==
    Slot(g).value = IF IsST(g) THEN [f0 |-> given[g][1], f1 |-> given[g][2]]
                               ELSE given[g][1]

Terminator(g) == Slot(g).value.f1

\* C12: while a guard is Armed its slot holds the payload and nothing has
\* received it; the payload leaves the slot at most once, in the step that
\* makes the guard Consumed, and goes to exactly one receiver (the terminal
\* action or the caller of the extraction), never to the payload's own
\* destructor; the slot is never read after it was emptied.
C12_SingleHandOff ==
    /\ [](\A g \in GuardIds : Born(g) =>
            /\ ~hist[g].ub
            /\ Armed(g) => SlotHolds(g) /\ Receivers(g) = 0
            /\ Consumed(g) => Receivers(g) = 1
                               /\ hist[g].drops + hist[g].extracts = 1)
    /\ [][\A g \in GuardIds :
            Born(g) /\ Slot(g).taken # Slot(g)'.taken =>
                Armed(g) /\ Consumed(g)' /\ Receivers(g) = 0 /\ Receivers(g)' = 1]_vars

C12_Witness ==
    \E g \in GuardIds, h \in GuardIds :
        /\ Consumed(g) /\ Len(calls[g]) = 1 /\ ret[g] = << >> /\ ~hist[g].ub
        /\ Consumed(h) /\ calls[h] = << >> /\ ret[h] # << >> /\ ~hist[h].ub

\* C13: reading or writing through a ScopedTerminator leaves the terminator
\* alone: no such step calls it, replaces it or disarms the guard; the
\* terminator in the guard, the one called at destruction and the one that
\* into_pair returns are the terminator passed to new.
C13_PayloadOnly ==
    /\ [](\A g \in GuardIds : IsST(g) =>
            /\ Terminator(g) = given[g][2]
            /\ Destroyed(g) => Len(calls[g]) = 1 /\ calls[g][1].fn = given[g][2]
            /\ Extracted1(g) => ret[g][2] = given[g][2])
    /\ [][\A g \in GuardIds :
            IsST(g) /\ life[g] = "held" /\ life'[g] = "held" =>
                /\ calls'[g] = calls[g]
                /\ Terminator(g)' = Terminator(g)
                /\ Armed(g) /\ Armed(g)']_vars

C13_Witness ==
    \E g \in GuardIds, h \in GuardIds :
        /\ IsST(g) /\ written[g] /\ Destroyed(g) /\ calls[g][1].fn = given[g][2]
        /\ IsST(h) /\ written[h] /\ Extracted1(h) /\ ret[h][2] = given[h][2]

\* the terminal action the contents most recently given to g call for
LastAction(g) ==
    IF IsST(g) THEN Call(given[g][2], <<given[g][1]>>)
               ELSE Call(given[g][1], << >>)

\* C15: a guard that was written through its write access and then
\* destroyed has run its terminal action on the last written payload.
C15_SeesLastWrite ==
    \A g \in GuardIds :
        written[g] /\ Destroyed(g) => calls[g] = << LastAction(g) >>

C15_Witness ==
    \E g \in GuardIds, h \in GuardIds :
        /\ IsST(g) /\ written[g] /\ Destroyed(g) /\ calls[g] = << LastAction(g) >>
        /\ IsAF(h) /\ written[h] /\ Destroyed(h) /\ calls[h] = << LastAction(h) >>

RECURSIVE Invocations(_)
Invocations(S) ==
    IF S = {} THEN 0
    ELSE LET g == CHOOSE x \in S : TRUE
         IN  Len(calls[g]) + Invocations(S \ {g})

\* what the caller can observe of guard g
Observable(g) == <<guard[g], life[g], calls[g], ret[g], hist[g]>>

\* C16: a guard made by Clone or Default is an independent Armed guard.
\* Cloning an Armed guard leaves the original Armed and unchanged and makes
\* a second Armed guard of the same type with a copy of the contents; a
\* default guard is Armed with the default contents; a step that extracts
\* from or destroys one guard changes nothing of any other guard; at every
\* moment the terminal-action invocations of all guards together are as many
\* as the guards destroyed without extraction.
C16_IndependentInstances ==
    /\ [](/\ Invocations(GuardIds)
                = Cardinality({g \in GuardIds : Destroyed(g)})
          /\ \A g \in GuardIds : Extracted1(g) => ~Destroyed(g))
    /\ [][\A h \in GuardIds : (~Born(h) /\ Born(h)') =>
            /\ Armed(h)' /\ life'[h] = "held" /\ calls'[h] = << >>
            /\ origin'[h] = -1 =>
                   Slot(h)'.value = IF IsST(h)'
                                    THEN [f0 |-> DefaultValue, f1 |-> DefaultFn]
                                    ELSE DefaultFn
            /\ \A g \in GuardIds : origin'[h] = g =>
                   /\ Armed(g) /\ Armed(g)'
                   /\ Observable(g)' = Observable(g)
                   /\ kind'[h] = kind[g]
                   /\ Slot(h)'.value = Slot(g).value]_vars
    /\ [][\A g \in GuardIds, h \in GuardIds :
            (g # h /\ Born(g) /\ Born(h) /\ Observable(g)' # Observable(g))
                => Observable(h)' = Observable(h)]_vars

C16_Witness ==
    \E g \in GuardIds, h \in GuardIds :
        /\ origin[h] = g /\ IsST(g) /\ IsST(h)
        /\ Destroyed(g) /\ Destroyed(h)
        /\ calls[g] = calls[h] /\ Len(calls[h]) = 1
        /\ Invocations(GuardIds) >= 2
====
